---- MODULE Spec2Model ----
(***************************************************************************)
(* Model of attestation/packed/packed.go: the verifier of the "packed"     *)
(* WebAuthn attestation statement format (verifyPacked and the three       *)
(* functions it dispatches to).                                            *)
(*                                                                         *)
(* A call is a small sequential process: its position (pc), the function   *)
(* it was routed to (path), its locals (cert, signedBytes, copied) and its *)
(* return value (result).  authenticatorData is shared by the calls; its   *)
(* Raw field is a Go slice, modelled by its backing array (rawBuf) of      *)
(* which the first RawLen bytes are the slice and the rest is spare        *)
(* capacity.                                                               *)
(*                                                                         *)
(* Cryptography is symbolic: a signature is the token (key, algorithm,     *)
(* message) and verifies exactly under that key, algorithm and message.    *)
(* A DER certificate is the record of the fields x509.ParseCertificate     *)
(* reads from it.  The value of a certificate extension is a concrete DER  *)
(* byte string (tag, length, content), decoded as asn1.Unmarshal does.     *)
(***************************************************************************)
EXTENDS Integers, Sequences, FiniteSets, TLC

VARIABLES pc, path, result, stmt, clientDataHash, coseKey, rawBuf,
          cert, signedBytes, copied

vars == <<pc, path, result, stmt, clientDataHash, coseKey, rawBuf,
          cert, signedBytes, copied>>

Procs == {1, 2}

(***************************************************************************)
(* Bounds of the model.                                                    *)
(***************************************************************************)
\* length of authenticatorData.Raw
RawLen == 1
\* length of clientDataHash (32 in a SHA-256 flow)
HashLen == 2
\* length of an AAGUID (16 in the protocol; the code never reads the length)
AaguidLen == 2

(***************************************************************************)
(* Program constants.                                                      *)
(***************************************************************************)
\* protocol.ES256, the COSE algorithm identifier compared in verifySelf
ES256 == -7
\* the certificate version the profile requires
RequiredVersion == 3
\* asn1.TagOctetString: the universal tag asn1.Unmarshal expects for a []byte
TagOctetString == 4

extensionIDFIDOGenCAAAGUID == <<1, 3, 6, 1, 4, 1, 45724, 1, 1, 4>>

(***************************************************************************)
(* Values of the loosely typed statement map (map[string]interface{}).     *)
(* "absent" is a missing key; "string" stands for any value of a type the  *)
(* code does not assert (a nil value included).                            *)
(***************************************************************************)
Absent == [t |-> "absent"]
Str == [t |-> "string"]
Int64(n) == [t |-> "int64", n |-> n]
Bytes(b) == [t |-> "bytes", b |-> b]
List(l) == [t |-> "list", l |-> l]

Present(v) == v.t # "absent"

(***************************************************************************)
(* Byte strings of the inputs.                                             *)
(***************************************************************************)
Fill(n, b) == [i \in 1..n |-> b]

RawBytes == Fill(RawLen, 1)
HashBytes == {7, 8}
Hashes == {Fill(HashLen, b) : b \in HashBytes}
Spares == {0, HashLen - 1, HashLen}

\* authenticatorData.AttestedCredentialData.AAGUID, and another identifier
AAGUID == Fill(AaguidLen, 1)
OtherAAGUID == Fill(AaguidLen, 2)

Concat(raw, hash) == raw \o hash

(***************************************************************************)
(* Symbolic signatures.                                                    *)
(***************************************************************************)
SigAlgs == {"ECDSAWithSHA256", "SHA256WithRSA"}
Garbage == [kind |-> "garbage"]
Sign(key, alg, msg) == [kind |-> "sig", key |-> key, alg |-> alg, msg |-> msg]

Messages == {Concat(RawBytes, h) : h \in Hashes}
SigBlobs ==
    {Garbage}
    \cup {Sign("certKey", a, m) : a \in SigAlgs, m \in Messages}
    \cup {Sign("credKey", "ECDSAWithSHA256", m) : m \in Messages}

(***************************************************************************)
(* DER values of the id-fido-gen-ce-aaguid extension.                      *)
(***************************************************************************)
OctetString(c) == <<TagOctetString, Len(c)>> \o c

ExtValues ==
    { <<>>,                                       \* empty extension value
      OctetString(AAGUID),                        \* the authenticator's AAGUID
      OctetString(OtherAAGUID),                   \* another model's AAGUID
      OctetString(AAGUID) \o <<0>>,               \* trailing byte
      <<TagOctetString, AaguidLen + 1>> \o AAGUID, \* truncated content
      <<2, AaguidLen>> \o AAGUID,                 \* an INTEGER, not an OCTET STRING
      OctetString(<<>>) }                         \* an empty OCTET STRING

FidoExts == {[Id |-> extensionIDFIDOGenCAAAGUID, Critical |-> c, Value |-> v] :
                c \in BOOLEAN, v \in ExtValues}
\* any other extension (keyUsage), critical, with a value that is not the
\* AAGUID; IsCA is what ParseCertificate reads from basicConstraints
OtherExt == [Id |-> <<2, 5, 29, 15>>, Critical |-> TRUE,
             Value |-> OctetString(OtherAAGUID)]

ExtLists == {<<>>, <<OtherExt>>}
            \cup {<<e>> : e \in FidoExts}
            \cup {<<OtherExt, e>> : e \in {f \in FidoExts : ~f.Critical}}

\* DER certificates: version is the ASN.1 INTEGER (2 for X.509v3)
CertBlobs == [kind : {"cert"}, version : {1, 2}, ca : BOOLEAN,
              sigAlg : SigAlgs, key : {"certKey"}, exts : ExtLists]

(***************************************************************************)
(* The inputs of a call.                                                   *)
(***************************************************************************)
AlgValues == {Absent, Str, Int64(ES256), Int64(-257)}
SigValues == {Absent, Str} \cup {Bytes(b) : b \in SigBlobs}
X5cValues == {Absent, Str, List(<<>>), List(<<Str>>), List(<<Bytes(Garbage)>>)}
             \cup {List(<<Bytes(c)>>) : c \in CertBlobs}
EcdaaValues == {Absent, Bytes(Garbage)}

Statements == [alg : AlgValues, sig : SigValues, x5c : X5cValues,
               ecdaaKeyId : EcdaaValues]

\* authenticatorData.AttestedCredentialData.COSEKey, already decoded
COSEKeys == { [type |-> "ecdsa", curve |-> "P-256", id |-> "credKey"],
              [type |-> "ecdsa", curve |-> "P-384", id |-> "credKey"],
              [type |-> "rsa", curve |-> "none", id |-> "credKey"] }

(***************************************************************************)
(* Library functions, by what they do.                                     *)
(***************************************************************************)
\* x509.ParseCertificate: Version is the encoded INTEGER plus one
ParseCertificate(der) ==
    IF der.kind = "cert"
    THEN [err |-> FALSE,
          cert |-> [Version |-> der.version + 1, IsCA |-> der.ca,
                    SignatureAlgorithm |-> der.sigAlg, PublicKey |-> der.key,
                    Extensions |-> der.exts]]
    ELSE [err |-> TRUE]

\* (*x509.Certificate).CheckSignature(algo, signed, signature): TRUE when valid
CheckSignature(c, algo, signed, sig) ==
    /\ sig.kind = "sig"
    /\ sig.key = c.PublicKey
    /\ sig.alg = algo
    /\ sig.msg = signed

\* asn1.Unmarshal(b, &octets) for octets []byte: one OCTET STRING in short
\* length form is read from the front of b; what follows it is the rest,
\* which the caller drops
UnmarshalOctetString(b) ==
    IF /\ Len(b) >= 2
       /\ b[1] = TagOctetString
       /\ b[2] <= Len(b) - 2
    THEN [err |-> FALSE, val |-> SubSeq(b, 3, 2 + b[2]),
          rest |-> SubSeq(b, 3 + b[2], Len(b))]
    ELSE [err |-> TRUE, val |-> <<>>, rest |-> <<>>]

\* asn1.Unmarshal(sig, signature) with signature a []*big.Int passed by
\* value: the destination is not a pointer, so Unmarshal decodes nothing and
\* returns (nil, invalidUnmarshalError) for every sig, as the package
\* documents ("if val is nil or not a pointer, Unmarshal returns an error")
UnmarshalSignature(sig) == [err |-> TRUE, restIsNil |-> TRUE]

\* ecdsa.Verify(pub, sha256(signed), r, s) on the decoded pair
EcdsaVerify(key, signed, sig) ==
    /\ sig.kind = "sig"
    /\ sig.key = key.id
    /\ sig.alg = "ECDSAWithSHA256"
    /\ sig.msg = signed

(***************************************************************************)
(* verifyBasic, lines 86-130: the certificate profile and the AAGUID.      *)
(***************************************************************************)
\* the loop over cert.Extensions from element i on; aaguidValue so far is acc
RECURSIVE ScanExtensions(_, _, _)
ScanExtensions(exts, i, acc) ==
    IF i > Len(exts) THEN [critical |-> FALSE, aaguidValue |-> acc]
    ELSE IF exts[i].Id = extensionIDFIDOGenCAAAGUID
         THEN IF exts[i].Critical
              THEN [critical |-> TRUE, aaguidValue |-> acc]
              ELSE ScanExtensions(exts, i + 1, exts[i].Value)
         ELSE ScanExtensions(exts, i + 1, acc)

\* faulty variant: the decoded identifier is not compared with the AAGUID
CheckAAGUID_NoCompare(aaguidValue, aaguid) ==
    IF Len(aaguidValue) > 0
    THEN LET u == UnmarshalOctetString(aaguidValue) IN
         IF u.err THEN "invalid AAGUID encoding" ELSE "ok"
    ELSE "ok"

CheckAAGUID(aaguidValue, aaguid) ==
    IF Len(aaguidValue) > 0
    THEN LET u == UnmarshalOctetString(aaguidValue) IN
         IF u.err THEN "invalid AAGUID encoding"
         ELSE IF u.val # aaguid THEN "invalid AAGUID"
         ELSE "ok"
    ELSE "ok"

\* faulty variant: the CA flag is not checked
CertProfile_NoCA(c, aaguid) ==
    IF c.Version # RequiredVersion THEN "invalid version for certificate"
    ELSE LET s == ScanExtensions(c.Extensions, 1, <<>>) IN
         IF s.critical THEN "aaguid extension marked as critical"
         ELSE CheckAAGUID(s.aaguidValue, aaguid)

CertProfile(c, aaguid) ==
    IF c.Version # RequiredVersion THEN "invalid version for certificate"
    ELSE IF c.IsCA THEN "CA is set for certificate"
    ELSE LET s == ScanExtensions(c.Extensions, 1, <<>>) IN
         IF s.critical THEN "aaguid extension marked as critical"
         ELSE CheckAAGUID(s.aaguidValue, aaguid)

(***************************************************************************)
(* verifySelf, lines 144-168.                                              *)
(***************************************************************************)
SelfCheck(key, alg, sig, signed) ==
    IF key.type = "ecdsa"
    THEN IF alg # ES256 \/ key.curve # "P-256"
         THEN "unsupported ECDSA key curve"
         ELSE LET u == UnmarshalSignature(sig) IN
              IF u.err THEN "invalid ECDSA signature"
              ELSE IF ~u.restIsNil THEN "invalid ECDSA signature: too much data"
              ELSE IF ~EcdsaVerify(key, signed, sig)
                   THEN "invalid signature for packed"
                   ELSE "ok"
    ELSE "unsupported public key type"

(***************************************************************************)
(* verifyPacked, lines 22-55: the field checks and the routing.            *)
(***************************************************************************)
Return(r) == [to |-> "done", path |-> "none", res |-> r]
Call(f) == [to |-> f, path |-> f, res |-> "pending"]

\* faulty variant: ecdaaKeyId no longer stops the call, which goes on as self attestation
Dispatch_EcdaaIgnored(st) ==
    IF ~Present(st.alg) THEN Return("missing alg for packed")
    ELSE IF st.alg.t # "int64" THEN Return("invalid alg for packed")
    ELSE IF ~Present(st.sig) THEN Return("missing sig for packed")
    ELSE IF st.sig.t # "bytes" THEN Return("invalid sig for packed")
    ELSE IF Present(st.x5c) THEN Call("basic")
    ELSE Call("self")

\* faulty variant: the routing on x5c comes before the checks of sig
Dispatch_RouteBeforeSig(st) ==
    IF ~Present(st.alg) THEN Return("missing alg for packed")
    ELSE IF st.alg.t # "int64" THEN Return("invalid alg for packed")
    ELSE IF Present(st.x5c) THEN Call("basic")
    ELSE IF ~Present(st.sig) THEN Return("missing sig for packed")
    ELSE IF st.sig.t # "bytes" THEN Return("invalid sig for packed")
    ELSE IF Present(st.ecdaaKeyId) THEN Call("ecdaa")
    ELSE Call("self")

\* faulty variant: ecdaaKeyId is looked up before x5c
Dispatch_EcdaaFirst(st) ==
    IF ~Present(st.alg) THEN Return("missing alg for packed")
    ELSE IF st.alg.t # "int64" THEN Return("invalid alg for packed")
    ELSE IF ~Present(st.sig) THEN Return("missing sig for packed")
    ELSE IF st.sig.t # "bytes" THEN Return("invalid sig for packed")
    ELSE IF Present(st.ecdaaKeyId) THEN Call("ecdaa")
    ELSE IF Present(st.x5c) THEN Call("basic")
    ELSE Call("self")

Dispatch(st) ==
    IF ~Present(st.alg) THEN Return("missing alg for packed")
    ELSE IF st.alg.t # "int64" THEN Return("invalid alg for packed")
    ELSE IF ~Present(st.sig) THEN Return("missing sig for packed")
    ELSE IF st.sig.t # "bytes" THEN Return("invalid sig for packed")
    ELSE IF Present(st.x5c) THEN Call("basic")
    ELSE IF Present(st.ecdaaKeyId) THEN Call("ecdaa")
    ELSE Call("self")

(***************************************************************************)
(* append(a.AuthData.Raw, clientDataHash...), lines 77 and 142.  With room *)
(* in the backing array of Raw the bytes of the hash are written behind    *)
(* the slice, into the caller's array, and the result shares that array;   *)
(* without room a fresh array gets a copy of both.                         *)
(***************************************************************************)
FitsInPlace(len, n, cap) == len + n <= cap

NoSlice == [shared |-> FALSE, len |-> 0, bytes |-> <<>>]
\* the bytes a slice holds now
View(s) == IF s.shared THEN SubSeq(rawBuf, 1, s.len) ELSE s.bytes

NoCert == [Version |-> 0, IsCA |-> FALSE, SignatureAlgorithm |-> "none",
           PublicKey |-> "none", Extensions |-> <<>>]

Finish(p, r) ==
    /\ pc' = [pc EXCEPT ![p] = "done"]
    /\ result' = [result EXCEPT ![p] = r]

Goto(p, l) ==
    /\ pc' = [pc EXCEPT ![p] = l]
    /\ UNCHANGED result

\* the call of append: in place (the copy follows, byte by byte) or fresh
AppendHash(p, copyLabel, nextLabel) ==
    IF FitsInPlace(RawLen, Len(clientDataHash[p]), Len(rawBuf))
    THEN /\ signedBytes' = [signedBytes EXCEPT ![p] =
                [shared |-> TRUE, len |-> RawLen + Len(clientDataHash[p]),
                 bytes |-> <<>>]]
         /\ copied' = [copied EXCEPT ![p] = 0]
         /\ Goto(p, copyLabel)
    ELSE /\ signedBytes' = [signedBytes EXCEPT ![p] =
                [shared |-> FALSE, len |-> RawLen + Len(clientDataHash[p]),
                 bytes |-> Concat(SubSeq(rawBuf, 1, RawLen), clientDataHash[p])]]
         /\ UNCHANGED copied
         /\ Goto(p, nextLabel)

\* one byte of the hash written into the backing array of Raw
CopyByte(p, nextLabel) ==
    /\ copied[p] < Len(clientDataHash[p])
    /\ rawBuf' = [rawBuf EXCEPT ![RawLen + copied[p] + 1] =
                                    clientDataHash[p][copied[p] + 1]]
    /\ copied' = [copied EXCEPT ![p] = copied[p] + 1]
    /\ IF copied[p] + 1 = Len(clientDataHash[p])
       THEN Goto(p, nextLabel)
       ELSE UNCHANGED <<pc, result>>

(***************************************************************************)
(* The steps of a call.                                                    *)
(***************************************************************************)
VerifyPacked(p) ==
    /\ pc[p] = "start"
    /\ LET d == Dispatch(stmt[p]) IN
        /\ pc' = [pc EXCEPT ![p] = d.to]
        /\ path' = [path EXCEPT ![p] = d.path]
        /\ result' = [result EXCEPT ![p] = d.res]
    /\ UNCHANGED <<stmt, clientDataHash, coseKey, rawBuf, cert, signedBytes, copied>>

\* verifyBasic, lines 58-73: x5c, its first element, the certificate
BasicParse(p) ==
    /\ pc[p] = "basic"
    /\ LET x5c == stmt[p].x5c IN
       IF x5c.t # "list"
       THEN Finish(p, "invalid x5c for packed") /\ UNCHANGED cert
       ELSE IF Len(x5c.l) = 0
       THEN \* x5c[0] of an empty slice: index out of range
            /\ pc' = [pc EXCEPT ![p] = "panic"]
            /\ result' = [result EXCEPT ![p] = "panic"]
            /\ UNCHANGED cert
       ELSE IF x5c.l[1].t # "bytes"
       THEN Finish(p, "invalid x5c for packed") /\ UNCHANGED cert
       ELSE LET c == ParseCertificate(x5c.l[1].b) IN
            IF c.err
            THEN Finish(p, "invalid x5c for packed") /\ UNCHANGED cert
            ELSE /\ cert' = [cert EXCEPT ![p] = c.cert]
                 /\ Goto(p, "basic_append")
    /\ UNCHANGED <<path, stmt, clientDataHash, coseKey, rawBuf, signedBytes, copied>>

\* verifyBasic, line 77
BasicAppend(p) ==
    /\ pc[p] = "basic_append"
    /\ AppendHash(p, "basic_copy", "basic_sig")
    /\ UNCHANGED <<path, stmt, clientDataHash, coseKey, rawBuf, cert>>

BasicCopy(p) ==
    /\ pc[p] = "basic_copy"
    /\ CopyByte(p, "basic_sig")
    /\ UNCHANGED <<path, stmt, clientDataHash, coseKey, cert, signedBytes>>

\* faulty variant: the first check uses the algorithm alg names instead of the
\* certificate's
BasicCheckSignature_ByAlg(p) ==
    /\ pc[p] = "basic_sig"
    /\ IF CheckSignature(cert[p],
                         IF stmt[p].alg.n = ES256 THEN "ECDSAWithSHA256"
                                                  ELSE "SHA256WithRSA",
                         View(signedBytes[p]), stmt[p].sig.b)
       THEN Goto(p, "basic_profile")
       ELSE Finish(p, "invalid signature for packed")
    /\ UNCHANGED <<path, stmt, clientDataHash, coseKey, rawBuf, cert, signedBytes, copied>>

\* verifyBasic, line 78: the certificate's declared signature algorithm
BasicCheckSignature(p) ==
    /\ pc[p] = "basic_sig"
    /\ IF CheckSignature(cert[p], cert[p].SignatureAlgorithm,
                         View(signedBytes[p]), stmt[p].sig.b)
       THEN Goto(p, "basic_profile")
       ELSE Goto(p, "basic_fallback")
    /\ UNCHANGED <<path, stmt, clientDataHash, coseKey, rawBuf, cert, signedBytes, copied>>

\* verifyBasic, lines 79-83: the retry with ECDSAWithSHA256
BasicFallback(p) ==
    /\ pc[p] = "basic_fallback"
    /\ IF CheckSignature(cert[p], "ECDSAWithSHA256",
                         View(signedBytes[p]), stmt[p].sig.b)
       THEN Goto(p, "basic_profile")
       ELSE Finish(p, "invalid signature for packed")
    /\ UNCHANGED <<path, stmt, clientDataHash, coseKey, rawBuf, cert, signedBytes, copied>>

\* verifyBasic, lines 86-130
BasicProfile(p) ==
    /\ pc[p] = "basic_profile"
    /\ Finish(p, CertProfile(cert[p], AAGUID))
    /\ UNCHANGED <<path, stmt, clientDataHash, coseKey, rawBuf, cert, signedBytes, copied>>

\* verifyECDAA, lines 133-135
VerifyECDAA(p) ==
    /\ pc[p] = "ecdaa"
    /\ Finish(p, "unsupported packed format ECDAA")
    /\ UNCHANGED <<path, stmt, clientDataHash, coseKey, rawBuf, cert, signedBytes, copied>>

\* verifySelf, line 142
SelfAppend(p) ==
    /\ pc[p] = "self"
    /\ AppendHash(p, "self_copy", "self_check")
    /\ UNCHANGED <<path, stmt, clientDataHash, coseKey, rawBuf, cert>>

SelfCopy(p) ==
    /\ pc[p] = "self_copy"
    /\ CopyByte(p, "self_check")
    /\ UNCHANGED <<path, stmt, clientDataHash, coseKey, cert, signedBytes>>

\* verifySelf, lines 144-168
SelfVerify(p) ==
    /\ pc[p] = "self_check"
    /\ Finish(p, SelfCheck(coseKey, stmt[p].alg.n, stmt[p].sig.b,
                           View(signedBytes[p])))
    /\ UNCHANGED <<path, stmt, clientDataHash, coseKey, rawBuf, cert, signedBytes, copied>>

Step(p) ==
    \/ VerifyPacked(p)
    \/ BasicParse(p)
    \/ BasicAppend(p)
    \/ BasicCopy(p)
    \/ BasicCheckSignature(p)
    \/ BasicFallback(p)
    \/ BasicProfile(p)
    \/ VerifyECDAA(p)
    \/ SelfAppend(p)
    \/ SelfCopy(p)
    \/ SelfVerify(p)

Next == \E p \in Procs : Step(p)

(***************************************************************************)
(* Initial states.  The credential key is read on the self path only and   *)
(* the certificate on the basic path only, so the key varies where x5c is  *)
(* absent.                                                                 *)
(***************************************************************************)
KeysFor(x5c) == IF Present(x5c) THEN {k \in COSEKeys : k.curve = "P-256"}
                ELSE COSEKeys

InitCall(started, st, hs, key, spare) ==
    /\ pc = [p \in Procs |-> IF p \in started THEN "start" ELSE "idle"]
    /\ path = [p \in Procs |-> "none"]
    /\ result = [p \in Procs |-> "pending"]
    /\ stmt = st
    /\ clientDataHash = hs
    /\ coseKey = key
    /\ rawBuf = RawBytes \o Fill(spare, 0)
    /\ cert = [p \in Procs |-> NoCert]
    /\ signedBytes = [p \in Procs |-> NoSlice]
    /\ copied = [p \in Procs |-> 0]

\* one call, on every statement
Init ==
    \E st \in Statements, h \in Hashes, spare \in Spares :
      \E key \in KeysFor(st.x5c) :
        InitCall({1}, [p \in Procs |-> st], [p \in Procs |-> h], key, spare)

Spec == Init /\ [][Next]_vars

(***************************************************************************)
(* Two concurrent calls on the same authenticatorData: the same sig, x5c   *)
(* and ecdaaKeyId, each call with its own alg and its own clientDataHash.  *)
(***************************************************************************)
ConcCerts == {c \in CertBlobs : c.exts = <<>>}
ConcX5c == {Absent, List(<<>>)} \cup {List(<<Bytes(c)>>) : c \in ConcCerts}
ConcAlgs == {Absent, Int64(ES256), Int64(-257)}

InitConc ==
    \E sig \in {Bytes(b) : b \in SigBlobs}, x5c \in ConcX5c, e \in EcdaaValues,
       spare \in Spares :
      \E alg \in [Procs -> ConcAlgs], hs \in [Procs -> Hashes],
         key \in KeysFor(x5c) :
        InitCall(Procs,
                 [p \in Procs |-> [alg |-> alg[p], sig |-> sig, x5c |-> x5c,
                                   ecdaaKeyId |-> e]],
                 hs, key, spare)

SpecConc == InitConc /\ [][Next]_vars

(***************************************************************************)
(* Vocabulary of the properties.                                           *)
(***************************************************************************)
Done(p) == pc[p] \in {"done", "panic"}

FieldsOk(st) == st.alg.t = "int64" /\ st.sig.t = "bytes"

FieldErrors == {"missing alg for packed", "invalid alg for packed",
                "missing sig for packed", "invalid sig for packed"}

\* x5c is a sequence whose first element is a byte string that decodes
HasLeaf(st) ==
    /\ st.x5c.t = "list"
    /\ Len(st.x5c.l) > 0
    /\ st.x5c.l[1].t = "bytes"
    /\ ~ParseCertificate(st.x5c.l[1].b).err
Leaf(st) == ParseCertificate(st.x5c.l[1].b).cert

\* authenticatorData.Raw ++ the call's own clientDataHash
OwnMessage(p) == Concat(RawBytes, clientDataHash[p])

\* sig verifies under the certificate's declared algorithm or ECDSAWithSHA256
SigAccepted(c, sig, msg) ==
    \/ CheckSignature(c, c.SignatureAlgorithm, msg, sig)
    \/ CheckSignature(c, "ECDSAWithSHA256", msg, sig)

FidoIndexes(c) ==
    {i \in DOMAIN c.Extensions : c.Extensions[i].Id = extensionIDFIDOGenCAAAGUID}

\* the device-model extension decodes to bytes other than the AAGUID
MismatchedAAGUID(c) ==
    \E i \in FidoIndexes(c) :
        LET u == UnmarshalOctetString(c.Extensions[i].Value) IN
        ~u.err /\ u.val # AAGUID

Route(st) == IF Present(st.x5c) THEN "basic"
             ELSE IF Present(st.ecdaaKeyId) THEN "ecdaa"
             ELSE "self"

LabelsOf(f) ==
    IF f = "basic" THEN {"basic", "basic_append", "basic_copy", "basic_sig",
                         "basic_fallback", "basic_profile"}
    ELSE IF f = "ecdaa" THEN {"ecdaa"}
    ELSE IF f = "self" THEN {"self", "self_copy", "self_check"}
    ELSE {"idle", "start"}

ResultsOf(f) ==
    IF f = "basic" THEN {"ok", "panic", "invalid x5c for packed",
                         "invalid signature for packed",
                         "invalid version for certificate",
                         "CA is set for certificate",
                         "aaguid extension marked as critical",
                         "invalid AAGUID encoding", "invalid AAGUID"}
    ELSE IF f = "ecdaa" THEN {"unsupported packed format ECDAA"}
    ELSE IF f = "self" THEN {"ok", "unsupported ECDSA key curve",
                             "invalid ECDSA signature",
                             "invalid ECDSA signature: too much data",
                             "invalid signature for packed",
                             "unsupported public key type"}
    ELSE FieldErrors

(***************************************************************************)
(* C1                                                                      *)
(***************************************************************************)
\* C1, as claimed: every finished call on a statement that contains
\* ecdaaKeyId has failed with the unsupported-format (ECDAA) error, whatever
\* the other fields are.
C1_Original ==
    \A p \in Procs :
        (Done(p) /\ Present(stmt[p].ecdaaKeyId))
            => result[p] = "unsupported packed format ECDAA"

\* C1, amended: a finished call on a statement that contains ecdaaKeyId has
\* failed with the unsupported-format (ECDAA) error when alg is an integer,
\* sig is a byte string and x5c is absent; with alg or sig missing or
\* ill-typed it has failed with the field error instead, and with x5c
\* present it was verified on the basic path.
C1_Amended ==
    \A p \in Procs :
        (Done(p) /\ Present(stmt[p].ecdaaKeyId)) =>
            IF ~FieldsOk(stmt[p]) THEN result[p] \in FieldErrors
            ELSE IF Present(stmt[p].x5c)
                 THEN /\ path[p] = "basic"
                      /\ result[p] # "unsupported packed format ECDAA"
                 ELSE /\ path[p] = "ecdaa"
                      /\ result[p] = "unsupported packed format ECDAA"

C1_Witness ==
    \E p \in Procs :
        /\ pc[p] = "done"
        /\ Present(stmt[p].ecdaaKeyId)
        /\ FieldsOk(stmt[p])
        /\ ~Present(stmt[p].x5c)
        /\ result[p] = "unsupported packed format ECDAA"

(***************************************************************************)
(* C2                                                                      *)
(***************************************************************************)
\* C2, as claimed: on the basic path a leaf certificate with IsCA = true
\* always ends in "CA is set for certificate", whether or not the signature
\* is valid.
C2_Original ==
    \A p \in Procs :
        (Done(p) /\ path[p] = "basic" /\ HasLeaf(stmt[p])
                 /\ Leaf(stmt[p]).IsCA)
            => result[p] = "CA is set for certificate"

\* C2, amended: on the basic path a leaf certificate with IsCA = true always
\* fails; the error is "CA is set for certificate" when the signature is
\* accepted and the version is 3, the invalid-signature error when the
\* signature is not accepted, and the invalid-version error when the
\* signature is accepted and the version is not 3.
C2_Amended ==
    \A p \in Procs :
        (Done(p) /\ path[p] = "basic" /\ HasLeaf(stmt[p])
                 /\ Leaf(stmt[p]).IsCA) =>
            LET c == Leaf(stmt[p]) IN
            IF ~SigAccepted(c, stmt[p].sig.b, OwnMessage(p))
            THEN result[p] = "invalid signature for packed"
            ELSE IF c.Version # RequiredVersion
            THEN result[p] = "invalid version for certificate"
            ELSE result[p] = "CA is set for certificate"

C2_Witness ==
    \E p \in Procs :
        /\ pc[p] = "done"
        /\ path[p] = "basic"
        /\ HasLeaf(stmt[p])
        /\ Leaf(stmt[p]).IsCA
        /\ SigAccepted(Leaf(stmt[p]), stmt[p].sig.b, OwnMessage(p))
        /\ result[p] = "CA is set for certificate"

(***************************************************************************)
(* C3                                                                      *)
(***************************************************************************)
\* C3, as claimed: on the basic path, with a valid signature, a leaf whose
\* device-model extension decodes to bytes other than the AAGUID always ends
\* in "invalid AAGUID", for every version, CA flag and critical flag.
C3_Original ==
    \A p \in Procs :
        (Done(p) /\ path[p] = "basic" /\ HasLeaf(stmt[p])
                 /\ MismatchedAAGUID(Leaf(stmt[p]))
                 /\ SigAccepted(Leaf(stmt[p]), stmt[p].sig.b, OwnMessage(p)))
            => result[p] = "invalid AAGUID"

\* C3, amended: on the basic path a leaf whose device-model extension
\* decodes to bytes other than the AAGUID always fails; the error is
\* "invalid AAGUID" when the signature is accepted, the version is 3, the CA
\* flag is false and the extension is not critical, and otherwise the error
\* of the first of those checks that fails.
C3_Amended ==
    \A p \in Procs :
        (Done(p) /\ path[p] = "basic" /\ HasLeaf(stmt[p])
                 /\ MismatchedAAGUID(Leaf(stmt[p]))) =>
            LET c == Leaf(stmt[p]) IN
            IF ~SigAccepted(c, stmt[p].sig.b, OwnMessage(p))
            THEN result[p] = "invalid signature for packed"
            ELSE IF c.Version # RequiredVersion
            THEN result[p] = "invalid version for certificate"
            ELSE IF c.IsCA
            THEN result[p] = "CA is set for certificate"
            ELSE IF \E i \in FidoIndexes(c) : c.Extensions[i].Critical
            THEN result[p] = "aaguid extension marked as critical"
            ELSE result[p] = "invalid AAGUID"

C3_Witness ==
    \E p \in Procs :
        /\ pc[p] = "done"
        /\ path[p] = "basic"
        /\ HasLeaf(stmt[p])
        /\ MismatchedAAGUID(Leaf(stmt[p]))
        /\ SigAccepted(Leaf(stmt[p]), stmt[p].sig.b, OwnMessage(p))
        /\ result[p] = "invalid AAGUID"

(***************************************************************************)
(* C4                                                                      *)
(***************************************************************************)
\* C4: a call on a statement whose alg is absent or not an integer, or whose
\* sig is absent or not a byte string, never enters verifyBasic, verifyECDAA
\* or verifySelf (no certificate is parsed, no signed payload is built) and
\* ends with one of the missing-field / wrong-type errors, whatever x5c and
\* ecdaaKeyId are.
C4_FieldErrors ==
    \A p \in Procs :
        ~FieldsOk(stmt[p]) =>
            /\ path[p] = "none"
            /\ pc[p] \in {"idle", "start", "done"}
            /\ cert[p] = NoCert
            /\ signedBytes[p] = NoSlice
            /\ pc[p] = "done" => result[p] \in FieldErrors

C4_Witness ==
    \E p \in Procs :
        /\ pc[p] = "done"
        /\ stmt[p].alg.t = "int64"
        /\ stmt[p].sig.t = "string"
        /\ HasLeaf(stmt[p])
        /\ Present(stmt[p].ecdaaKeyId)
        /\ result[p] = "invalid sig for packed"

(***************************************************************************)
(* C5                                                                      *)
(***************************************************************************)
WellFormedSelf(p) ==
    /\ stmt[p].alg = Int64(ES256)
    /\ stmt[p].sig.t = "bytes"
    /\ ~Present(stmt[p].x5c)
    /\ ~Present(stmt[p].ecdaaKeyId)
    /\ coseKey.type = "ecdsa"
    /\ coseKey.curve = "P-256"

\* C5: a finished call on a self-attestation statement (alg = ES256, no x5c,
\* no ecdaaKeyId, a P-256 ECDSA credential key) whose sig is the DER pair
\* (r, s) of a valid ECDSA signature by the credential key over
\* authenticatorData.Raw ++ clientDataHash has returned success.
C5_SelfAttestation ==
    \A p \in Procs :
        ( /\ Done(p)
          /\ WellFormedSelf(p)
          /\ EcdsaVerify(coseKey, OwnMessage(p), stmt[p].sig.b) )
            => result[p] = "ok"

(***************************************************************************)
(* C6                                                                      *)
(***************************************************************************)
\* C6: no call panics: every call ends by returning success or an error.
C6_NoPanic ==
    \A p \in Procs : pc[p] # "panic"

(***************************************************************************)
(* C7                                                                      *)
(***************************************************************************)
\* C7: two concurrent calls on the same authenticatorData are independent:
\* whenever a call is about to check the signature, its signed payload is
\* authenticatorData.Raw ++ its own clientDataHash, and a finished call on
\* the basic path has returned the invalid-signature error exactly when sig
\* is not accepted over that payload.
C7_Independent ==
    \A p \in Procs :
        /\ pc[p] \in {"basic_sig", "basic_fallback", "self_check"}
              => View(signedBytes[p]) = OwnMessage(p)
        /\ (pc[p] = "done" /\ path[p] = "basic" /\ HasLeaf(stmt[p]))
              => (result[p] = "invalid signature for packed"
                    <=> ~SigAccepted(Leaf(stmt[p]), stmt[p].sig.b, OwnMessage(p)))

(***************************************************************************)
(* C8                                                                      *)
(***************************************************************************)
\* C8: once alg and sig have passed their checks the call is in exactly the
\* function the fixed order selects (basic if x5c is present, even with
\* ecdaaKeyId present; else ECDAA if ecdaaKeyId is present; else self), it
\* stays in that function until it ends, and its result is a result of that
\* function.
C8_Routing ==
    \A p \in Procs :
        /\ path[p] # "none" => FieldsOk(stmt[p])
        /\ (FieldsOk(stmt[p]) /\ pc[p] \notin {"idle", "start"})
              => path[p] = Route(stmt[p])
        /\ ~Done(p) => pc[p] \in LabelsOf(path[p])
        /\ Done(p) => result[p] \in ResultsOf(path[p])
        /\ path[p] = "ecdaa" => result[p] \in {"pending", "unsupported packed format ECDAA"}

C8_Witness ==
    \E p \in Procs :
        /\ pc[p] = "done"
        /\ FieldsOk(stmt[p])
        /\ Present(stmt[p].x5c)
        /\ Present(stmt[p].ecdaaKeyId)
        /\ path[p] = "basic"
        /\ result[p] = "ok"

(***************************************************************************)
(* C9                                                                      *)
(***************************************************************************)
\* C9: when the leaf certificate contains the device-model extension, the
\* basic path has returned success only if the extension is not critical and
\* its value decodes to an OCTET STRING equal to the AAGUID.
C9_ExtensionBinding ==
    \A p \in Procs :
        (Done(p) /\ path[p] = "basic" /\ HasLeaf(stmt[p]) /\ result[p] = "ok") =>
            \A i \in FidoIndexes(Leaf(stmt[p])) :
                LET e == Leaf(stmt[p]).Extensions[i]
                    u == UnmarshalOctetString(e.Value)
                IN  ~e.Critical /\ ~u.err /\ u.val = AAGUID

====
